---- MODULE Spec2Model ----
(***************************************************************************)
(* A model of osemclient.client.OpenSenseMapClient: one client instance,   *)
(* its aiohttp session and connector, the upstream openSenseMap API, and   *)
(* the coroutines get_sensor_measurements,                                 *)
(* get_measurements_with_sensor_metadata and close_session.                *)
(*                                                                         *)
(* An Optional[X] value is a set: {} is None, {x} is the value x.          *)
(* A datetime is [wall |-> ticks on its own clock, tzinfo |-> {} (naive)   *)
(* or {utc offset in ticks}].  A "tick" is half a day.                     *)
(***************************************************************************)
EXTENDS Integers, Sequences, FiniteSets, TLC

\* ------------------------------------------------------------------ bounds
MaxOps == 2        \* concurrent calls on the one client
MaxTime == 3       \* wall-clock ticks 0..MaxTime of a date bound
MaxLimit == 2      \* limit_per_host values 0..MaxLimit given to __init__
MaxClose == 2      \* close_session calls

\* W of the paginator contract: one day, in ticks (two half days).
DayTicks == 2
\* aiohttp.TCPConnector's default total limit (limit=100), which the client keeps.
ConnectorLimit == 100
\* the default of __init__'s limit_per_host.
DefaultLimitPerHost == 10

Ops == 1..MaxOps

\* ------------------------------------------------------------------ models
None == {}
Some(x) == {x}
TheValue(opt) == CHOOSE x \in opt : TRUE

\* models.SensorMetadata (by alias: _id, title, unit, sensorType)
SensorMetadata(id, title, unit, sensor_type) ==
    [id |-> id, title |-> title, unit |-> unit, sensorType |-> sensor_type]

SensorT == SensorMetadata("sT", "Temperatur", "degC", "HDC1080")
SensorH == SensorMetadata("sH", "rel. Luftfeuchte", "pct", "HDC1080")
SensorD == SensorMetadata("sD", "Taupunkt", "degC", "HDC1080")

\* models.Box
Box(id, sensors) == [id |-> id, sensors |-> sensors]
NoBox == Box("", <<>>)

\* models.Measurement (createdAt is a UTC instant in ticks, value a string)
Measurement(created_at, value) == [createdAt |-> created_at, value |-> value]

\* ---------------------------------------------------------------- upstream
\* The boxes the API serves under /boxes/:senseBoxId.
BoxIds == {"b0", "b1", "b2"}
UpstreamBox(sensebox_id) ==
    CASE sensebox_id = "b1" -> Box("b1", <<SensorT, SensorH>>)
      [] sensebox_id = "b2" -> Box("b2", <<SensorD>>)
      [] OTHER -> Box(sensebox_id, <<>>)

\* The series the API holds per sensor (the API does not promise an order).
UpstreamSeries(sensor_id) ==
    CASE sensor_id = "sT" -> <<Measurement(1, "2.2"), Measurement(0, "2.1"), Measurement(3, "2.3")>>
      [] sensor_id = "sH" -> <<Measurement(1, "99.1"), Measurement(2, "99.2")>>
      [] sensor_id = "sD" -> <<Measurement(0, "0.5"), Measurement(3, "0.7")>>
      [] OTHER -> <<>>

\* the rectangles (southwest, northeast) a caller asks for, by name
BoundingBoxes == {"Leipzig", "Jahnallee", "Nordsee"}
NoBoundingBox == ""

\* GET /boxes?bbox=..&full=true: the boxes upstream holds in the rectangle
UpstreamBoxes(bbox) ==
    CASE bbox = "Leipzig" -> <<UpstreamBox("b1"), UpstreamBox("b2")>>
      [] bbox = "Jahnallee" -> <<UpstreamBox("b1")>>
      [] OTHER -> <<>>

\* A URL: the path segments after the base url and the query parameters.
NoQuery == [format |-> "", from_date |-> None, to_date |-> None]
Url(path, query) == [path |-> path, query |-> query]
NoUrl == Url(<<>>, NoQuery)

\* GET /boxes/:senseBoxId/data/:sensorId?from-date=..&to-date=..: the
\* measurements of the sensor between the bounds that are given.
UpstreamMeasurements(url) ==
    LET InRange(m) ==
            /\ \A f \in url.query.from_date : f <= m.createdAt
            /\ \A t \in url.query.to_date : m.createdAt <= t
    IN  SelectSeq(UpstreamSeries(url.path[4]), InRange)

\* ------------------------------------------------------------------ client
\* datetime inputs
Naive(wall) == [wall |-> wall, tzinfo |-> None]
Aware(wall, offset) == [wall |-> wall, tzinfo |-> Some(offset)]
\* utc offsets: UTC and UTC+12:00
UtcOffsets == {0, 1}
DateTimes ==
    {Naive(0)} \cup {Aware(w, o) : w \in 0..MaxTime, o \in UtcOffsets}
OptionalDates == {None} \cup {Some(dt) : dt \in DateTimes}

\* a format that skips astimezone(timezone.utc)
to_osem_dateformat_unconverted(dt) == dt.wall

\* dt.astimezone(timezone.utc).strftime("%Y-%m-%dT%H:%M:%S.%fZ"): the UTC
\* instant of an aware datetime, as the tick the formatted text denotes.
to_osem_dateformat(dt) == dt.wall - TheValue(dt.tzinfo)

\* filtercriteria.SensorFilterCriteria
SensorFilterCriteria(allowed_units, allowed_phenomena) ==
    [allowed_units |-> allowed_units, allowed_phenomena |-> allowed_phenomena]
DefaultSensorFilterCriteria == SensorFilterCriteria(None, None)
UnitSets == {None, Some({"degC"}), Some({"degF"})}
PhenomenaSets == {None, Some({"Temperatur"}), Some({"Luftdruck"})}
OptionalCriteria ==
    {None} \cup {Some(SensorFilterCriteria(u, p)) : u \in UnitSets, p \in PhenomenaSets}

\* a predicate that is content with one of the two conditions
are_fulfilled_by_either(criteria, sensor) ==
    LET unit_is_ok ==
            \/ criteria.allowed_units = None
            \/ sensor.unit \in TheValue(criteria.allowed_units)
        phenomenon_is_ok ==
            \/ criteria.allowed_phenomena = None
            \/ sensor.title \in TheValue(criteria.allowed_phenomena)
    IN  unit_is_ok \/ phenomenon_is_ok

\* SensorFilterCriteria.are_fulfilled_by
are_fulfilled_by(criteria, sensor) ==
    LET unit_is_ok ==
            \/ criteria.allowed_units = None
            \/ sensor.unit \in TheValue(criteria.allowed_units)
        phenomenon_is_ok ==
            \/ criteria.allowed_phenomena = None
            \/ sensor.title \in TheValue(criteria.allowed_phenomena)
    IN  unit_is_ok /\ phenomenon_is_ok

\* exceptions: the type and, for aiohttp's ClientResponseError, the url of
\* the request it answers (request_info.real_url).
Error(type, url) == [type |-> type, url |-> url]
NoError == Error("none", NoUrl)

\* a request handed to session.get: waiting for a connection of the
\* connector, inflight (holding one), done (payload read) or failed.
Request(url, state) == [url |-> url, state |-> state, payload |-> <<>>]

VARIABLES
    limit_per_host,         \* TCPConnector(limit_per_host=...)
    session,                \* self._session: "ClientSession" or "None"
    session_closed,         \* ClientSession.closed
    closing,                \* close_session calls suspended in session.close()
    close_calls,            \* close_session calls made
    session_close_count,    \* calls of ClientSession.close()
    close_raised,           \* a close_session call raised
    from_date, to_date,     \* the date bounds the callers pass
    sensor_filter_criteria, \* the filter the callers pass
    callers,                \* the calls the owner makes on the client
    boxes,                  \* the senseboxes the callers ask for
    bounding_box,           \* the rectangle the caller asks for
    kind,                   \* per call: the coroutine called
    pc,                     \* per call: where the coroutine is
    sensebox_id,            \* per call: the sensebox_id argument
    box,                    \* per call: the fetched Box
    requests,               \* per call: the requests it awaits
    issued,                 \* per call: the urls handed to session.get
    completed,              \* per call: its measurement requests, as they end
    result,                 \* per call: the returned list
    error                   \* per call: the raised exception

vars ==
    <<limit_per_host, session, session_closed, closing, close_calls,
      session_close_count, close_raised, from_date, to_date,
      sensor_filter_criteria, callers, boxes, bounding_box, kind, pc, sensebox_id, box, requests,
      issued, completed, result, error>>

clientVars == <<limit_per_host, session, session_closed, closing, close_calls,
                session_close_count, close_raised>>
inputVars == <<from_date, to_date, sensor_filter_criteria, callers, boxes, bounding_box>>

\* ----------------------------------------------------------------- helpers
Min(a, b) == IF a <= b THEN a ELSE b

RECURSIVE Flatten(_)
Flatten(seqs) == IF seqs = <<>> THEN <<>> ELSE Head(seqs) \o Flatten(Tail(seqs))

\* sensor_filter_criteria or SensorFilterCriteria()
effective_filter(criteria) ==
    IF criteria = None THEN DefaultSensorFilterCriteria ELSE TheValue(criteria)

\* a filter that forgets allowed_phenomena
sensor_filter_allows_units_only(sensor_filter, sensor) ==
    \/ sensor_filter.allowed_units = None
    \/ sensor.unit \in TheValue(sensor_filter.allowed_units)

\* the condition of the comprehension in get_measurements_with_sensor_metadata
sensor_filter_allows(sensor_filter, sensor) ==
    /\ \/ sensor_filter.allowed_units = None
       \/ sensor.unit \in TheValue(sensor_filter.allowed_units)
    /\ \/ sensor_filter.allowed_phenomena = None
       \/ sensor.title \in TheValue(sensor_filter.allowed_phenomena)

\* {**sensor.dict(by_alias=True), **measurement.dict(by_alias=True), "senseboxId": box.id}
MeasurementWithSensorMetadata(sensor, measurement, box_id) ==
    [id |-> sensor.id, title |-> sensor.title, unit |-> sensor.unit,
     sensorType |-> sensor.sensorType, createdAt |-> measurement.createdAt,
     value |-> measurement.value, senseboxId |-> box_id]

\* a join that pairs the gathered lists with the sensors in the wrong order
join_results_mispaired(the_box, sensor_measurements, sensor_filter) ==
    LET n == Min(Len(the_box.sensors), Len(sensor_measurements))
        rows(i) ==
            IF sensor_filter_allows(sensor_filter, the_box.sensors[n + 1 - i])
            THEN [j \in 1..Len(sensor_measurements[i]) |->
                    MeasurementWithSensorMetadata(
                        the_box.sensors[n + 1 - i], sensor_measurements[i][j], the_box.id)]
            ELSE <<>>
    IN  Flatten([i \in 1..n |-> rows(i)])

\* a join that loses the first measurement of every sensor
join_results_off_by_one(the_box, sensor_measurements, sensor_filter) ==
    LET n == Min(Len(the_box.sensors), Len(sensor_measurements))
        rows(i) ==
            IF sensor_filter_allows(sensor_filter, the_box.sensors[i])
            THEN [j \in 1..(Len(sensor_measurements[i]) - 1) |->
                    MeasurementWithSensorMetadata(
                        the_box.sensors[i], sensor_measurements[i][j + 1], the_box.id)]
            ELSE <<>>
    IN  Flatten([i \in 1..n |-> rows(i)])

\* a join that forgets the condition of the comprehension
join_results_unfiltered(the_box, sensor_measurements, sensor_filter) ==
    LET n == Min(Len(the_box.sensors), Len(sensor_measurements))
        rows(i) ==
            [j \in 1..Len(sensor_measurements[i]) |->
                MeasurementWithSensorMetadata(
                    the_box.sensors[i], sensor_measurements[i][j], the_box.id)]
    IN  Flatten([i \in 1..n |-> rows(i)])

\* the list comprehension over zip(box.sensors, sensor_measurements)
join_results(the_box, sensor_measurements, sensor_filter) ==
    LET n == Min(Len(the_box.sensors), Len(sensor_measurements))
        rows(i) ==
            IF sensor_filter_allows(sensor_filter, the_box.sensors[i])
            THEN [j \in 1..Len(sensor_measurements[i]) |->
                    MeasurementWithSensorMetadata(
                        the_box.sensors[i], sensor_measurements[i][j], the_box.id)]
            ELSE <<>>
    IN  Flatten([i \in 1..n |-> rows(i)])

\* date checks that also turn down a range of one instant
naive_date_error_or_empty_range(fd, td) ==
    \/ fd /= None /\ TheValue(fd).tzinfo = None
    \/ td /= None /\ TheValue(td).tzinfo = None
    \/ /\ fd /= None /\ td /= None
       /\ to_osem_dateformat(TheValue(fd)) >= to_osem_dateformat(TheValue(td))

\* get_sensor_measurements up to session.get: the naive-date checks ...
naive_date_error(fd, td) ==
    \/ fd /= None /\ TheValue(fd).tzinfo = None
    \/ td /= None /\ TheValue(td).tzinfo = None

\* query parameters that set to-date along with from-date
query_params_to_date_with_from_date(fd, td) ==
    [format |-> "json",
     from_date |-> IF fd = None THEN None ELSE Some(to_osem_dateformat(TheValue(fd))),
     to_date |-> IF td /= None THEN Some(to_osem_dateformat(TheValue(td)))
                 ELSE IF fd /= None THEN Some(to_osem_dateformat(TheValue(fd)))
                 ELSE None]

\* ... and the url with its query parameters
query_params(fd, td) ==
    [format |-> "json",
     from_date |-> IF fd = None THEN None ELSE Some(to_osem_dateformat(TheValue(fd))),
     to_date |-> IF td = None THEN None ELSE Some(to_osem_dateformat(TheValue(td)))]

measurements_url(box_id, sensor_id, fd, td) ==
    Url(<<"boxes", box_id, "data", sensor_id>>, query_params(fd, td))

sensebox_url(box_id) == Url(<<"boxes", box_id>>, NoQuery)

\* self._session.get(url) on a session that is gone or closed
session_get_error ==
    IF session = "None" THEN Error("AttributeError", NoUrl)
    ELSE IF session_closed THEN Error("RuntimeError", NoUrl)
    ELSE NoError

\* the connections the connector has handed out
InFlight ==
    Cardinality(UNION {{<<o, i>> : i \in {j \in DOMAIN requests[o] :
                                            requests[o][j].state = "inflight"}} :
                       o \in Ops})

\* a connector that hands out one connection too many
connection_available_off_by_one(in_flight) ==
    /\ in_flight < ConnectorLimit
    /\ limit_per_host = 0 \/ in_flight <= limit_per_host

\* TCPConnector: a connection is free below limit and limit_per_host; a limit
\* of 0 is no limit (one host here: api.opensensemap.org)
connection_available(in_flight) ==
    /\ in_flight < ConnectorLimit
    /\ limit_per_host = 0 \/ in_flight < limit_per_host

\* session.get asks the connector for a connection: the request is on its
\* way if one is free and waits for one otherwise
start_request(url, in_flight) ==
    Request(url, IF connection_available(in_flight) THEN "inflight" ELSE "waiting")

\* the requests of tasks started one after the other
start_requests(urls, in_flight) ==
    [i \in 1..Len(urls) |-> start_request(urls[i], in_flight + i - 1)]

AllDone(reqs) == \A i \in 1..Len(reqs) : reqs[i].state = "done"
Payloads(reqs) == [i \in 1..Len(reqs) |-> reqs[i].payload]
Awaiting(o) == pc[o] \in {"get_sensebox", "get_sensor_measurements", "gather"}

\* ------------------------------------------------------------------- state
\* __init__: the connector and an open session; no call made yet.
InitClient ==
    /\ session = "ClientSession"
    /\ session_closed = FALSE
    /\ closing = 0
    /\ close_calls = 0
    /\ session_close_count = 0
    /\ close_raised = FALSE
    /\ kind = [o \in Ops |-> "none"]
    /\ pc = [o \in Ops |-> "idle"]
    /\ sensebox_id = [o \in Ops |-> ""]
    /\ box = [o \in Ops |-> NoBox]
    /\ requests = [o \in Ops |-> <<>>]
    /\ issued = [o \in Ops |-> <<>>]
    /\ completed = [o \in Ops |-> <<>>]
    /\ result = [o \in Ops |-> <<>>]
    /\ error = [o \in Ops |-> NoError]

\* one caller, any date bounds and filter, the default limit_per_host
Init ==
    /\ InitClient
    /\ limit_per_host \in {1, DefaultLimitPerHost}
    /\ from_date \in OptionalDates
    /\ to_date \in OptionalDates
    /\ sensor_filter_criteria \in OptionalCriteria
    /\ callers = {1}
    /\ boxes = BoxIds
    /\ bounding_box = NoBoundingBox

\* calls are numbered in the order they are made
MayCall(o) ==
    /\ o \in callers
    /\ pc[o] = "idle"
    /\ \A p \in Ops : p < o => pc[p] /= "idle"

Raise(o, e) ==
    /\ pc' = [pc EXCEPT ![o] = "raised"]
    /\ error' = [error EXCEPT ![o] = e]

\* ----------------------------------------------------------------- actions
\* await client.get_sensor_measurements(box_id, sensor_id, from_date, to_date),
\* up to its first suspension in session.get
get_sensor_measurements(o, box_id, sensor_id) ==
    /\ MayCall(o)
    /\ kind' = [kind EXCEPT ![o] = "get_sensor_measurements"]
    /\ sensebox_id' = [sensebox_id EXCEPT ![o] = box_id]
    /\ IF naive_date_error(from_date, to_date)
       THEN /\ Raise(o, Error("ValueError", NoUrl))
            /\ UNCHANGED <<requests, issued>>
       ELSE IF session_get_error /= NoError
       THEN /\ Raise(o, session_get_error)
            /\ UNCHANGED <<requests, issued>>
       ELSE LET url == measurements_url(box_id, sensor_id, from_date, to_date)
            IN  /\ requests' = [requests EXCEPT ![o] = start_requests(<<url>>, InFlight)]
                /\ issued' = [issued EXCEPT ![o] = <<url>>]
                /\ pc' = [pc EXCEPT ![o] = "get_sensor_measurements"]
                /\ UNCHANGED error
    /\ UNCHANGED <<clientVars, inputVars, box, completed, result>>

\* a fan-out that starts the sensor requests of the box along with the box
\* request
get_measurements_with_sensor_metadata_eager(o, box_id) ==
    /\ MayCall(o)
    /\ kind' = [kind EXCEPT ![o] = "get_measurements_with_sensor_metadata"]
    /\ sensebox_id' = [sensebox_id EXCEPT ![o] = box_id]
    /\ IF session_get_error /= NoError
       THEN /\ Raise(o, session_get_error)
            /\ UNCHANGED <<requests, issued>>
       ELSE /\ requests' = [requests EXCEPT ![o] =
                                start_requests(<<sensebox_url(box_id)>>, InFlight)]
            /\ issued' = [issued EXCEPT ![o] =
                    <<sensebox_url(box_id)>>
                        \o [i \in 1..Len(UpstreamBox(box_id).sensors) |->
                                Url(<<"boxes", box_id, "data", UpstreamBox(box_id).sensors[i].id>>,
                                    NoQuery)]]
            /\ pc' = [pc EXCEPT ![o] = "get_sensebox"]
            /\ UNCHANGED error
    /\ UNCHANGED <<clientVars, inputVars, box, completed, result>>

\* await client.get_measurements_with_sensor_metadata(box_id, from_date,
\* to_date, sensor_filter_criteria), up to its suspension in get_sensebox
get_measurements_with_sensor_metadata(o, box_id) ==
    /\ MayCall(o)
    /\ kind' = [kind EXCEPT ![o] = "get_measurements_with_sensor_metadata"]
    /\ sensebox_id' = [sensebox_id EXCEPT ![o] = box_id]
    /\ IF session_get_error /= NoError
       THEN /\ Raise(o, session_get_error)
            /\ UNCHANGED <<requests, issued>>
       ELSE /\ requests' = [requests EXCEPT ![o] =
                                start_requests(<<sensebox_url(box_id)>>, InFlight)]
            /\ issued' = [issued EXCEPT ![o] = <<sensebox_url(box_id)>>]
            /\ pc' = [pc EXCEPT ![o] = "get_sensebox"]
            /\ UNCHANGED error
    /\ UNCHANGED <<clientVars, inputVars, box, completed, result>>

\* a connection was released: the connector hands it to a waiting request
acquire_connection(o, i) ==
    /\ i \in DOMAIN requests[o]
    /\ requests[o][i].state = "waiting"
    /\ ~session_closed
    /\ connection_available(InFlight)
    /\ requests' = [requests EXCEPT ![o][i].state = "inflight"]
    /\ UNCHANGED <<clientVars, inputVars, kind, pc, sensebox_id, box, issued, completed,
                   result, error>>

\* sensor tasks for the sensors the filter lets through only
sensor_urls_of_allowed_sensors(the_box) ==
    LET allowed == SelectSeq(the_box.sensors,
                        LAMBDA sensor : sensor_filter_allows(
                            effective_filter(sensor_filter_criteria), sensor))
    IN  [i \in 1..Len(allowed) |->
            measurements_url(the_box.id, allowed[i].id, from_date, to_date)]

\* the sensor tasks gather() starts: each runs get_sensor_measurements up to
\* its session.get
sensor_urls(the_box) ==
    [i \in 1..Len(the_box.sensors) |->
        measurements_url(the_box.id, the_box.sensors[i].id, from_date, to_date)]

\* the box response arrives: get_sensebox returns, the sensor tasks are
\* created and gathered
box_response(o) ==
    /\ pc[o] = "get_sensebox"
    /\ requests[o][1].state = "inflight"
    /\ ~session_closed
    /\ LET the_box == UpstreamBox(sensebox_id[o])
       IN  /\ box' = [box EXCEPT ![o] = the_box]
           /\ IF the_box.sensors = <<>>
              THEN /\ pc' = [pc EXCEPT ![o] = "returned"]
                   /\ requests' = [requests EXCEPT ![o] = <<>>]
                   /\ UNCHANGED <<issued, error>>
              ELSE IF naive_date_error(from_date, to_date)
              THEN /\ Raise(o, Error("ValueError", NoUrl))
                   /\ requests' = [requests EXCEPT ![o] = <<>>]
                   /\ UNCHANGED issued
              ELSE /\ pc' = [pc EXCEPT ![o] = "gather"]
                   /\ requests' = [requests EXCEPT ![o] =
                         start_requests(sensor_urls(the_box), InFlight - 1)]
                   /\ issued' = [issued EXCEPT ![o] = @ \o sensor_urls(the_box)]
                   /\ UNCHANGED error
    /\ UNCHANGED <<clientVars, inputVars, kind, sensebox_id, completed, result>>

\* a fan-out that joins the responses in the order they arrive
\* (asyncio.as_completed instead of gather)
measurements_response_as_completed(o, i) ==
    /\ pc[o] \in {"get_sensor_measurements", "gather", "raised"}
    /\ i \in DOMAIN requests[o]
    /\ requests[o][i].state = "inflight"
    /\ ~session_closed
    /\ LET reqs == [requests[o] EXCEPT ![i].state = "done",
                                       ![i].payload = UpstreamMeasurements(requests[o][i].url)]
           order == Append(completed[o], i)
       IN  /\ requests' = [requests EXCEPT ![o] = reqs]
           /\ IF pc[o] = "get_sensor_measurements"
              THEN /\ pc' = [pc EXCEPT ![o] = "returned"]
                   /\ result' = [result EXCEPT ![o] = reqs[1].payload]
              ELSE IF pc[o] = "gather" /\ AllDone(reqs)
              THEN /\ pc' = [pc EXCEPT ![o] = "returned"]
                   /\ result' = [result EXCEPT ![o] =
                         Flatten([k \in DOMAIN order |->
                            join_results(Box(box[o].id, <<box[o].sensors[order[k]]>>),
                                         <<reqs[order[k]].payload>>,
                                         effective_filter(sensor_filter_criteria))])]
              ELSE UNCHANGED <<pc, result>>
    /\ completed' = [completed EXCEPT ![o] = Append(@, i)]
    /\ UNCHANGED <<clientVars, inputVars, kind, sensebox_id, box, issued, error>>

\* a measurements response arrives: its task returns results.root; gather
\* returns when every task has, and the caller gets the joined list
measurements_response(o, i) ==
    /\ pc[o] \in {"get_sensor_measurements", "gather", "raised"}
    /\ i \in DOMAIN requests[o]
    /\ requests[o][i].state = "inflight"
    /\ ~session_closed
    /\ LET reqs == [requests[o] EXCEPT ![i].state = "done",
                                       ![i].payload = UpstreamMeasurements(requests[o][i].url)]
       IN  /\ requests' = [requests EXCEPT ![o] = reqs]
           /\ IF pc[o] = "get_sensor_measurements"
              THEN /\ pc' = [pc EXCEPT ![o] = "returned"]
                   /\ result' = [result EXCEPT ![o] = reqs[1].payload]
              ELSE IF pc[o] = "gather" /\ AllDone(reqs)
              THEN /\ pc' = [pc EXCEPT ![o] = "returned"]
                   /\ result' = [result EXCEPT ![o] =
                         join_results(box[o], Payloads(reqs),
                                      effective_filter(sensor_filter_criteria))]
              ELSE UNCHANGED <<pc, result>>
    /\ completed' = [completed EXCEPT ![o] = Append(@, i)]
    /\ UNCHANGED <<clientVars, inputVars, kind, sensebox_id, box, issued, error>>

\* the exception a failing request raises in its task
request_error(o, i, type) ==
    IF type = "ClientResponseError" THEN Error(type, requests[o][i].url)
    ELSE Error(type, NoUrl)

\* a failure the awaiting coroutine swallows: it returns what it has
request_failure_swallowed(o, i, type) ==
    /\ i \in DOMAIN requests[o]
    /\ requests[o][i].state = "inflight"
    /\ ~session_closed
    /\ requests' = [requests EXCEPT ![o][i].state = "failed"]
    /\ IF Awaiting(o)
       THEN pc' = [pc EXCEPT ![o] = "returned"] /\ UNCHANGED error
       ELSE UNCHANGED <<pc, error>>
    /\ completed' = [completed EXCEPT ![o] = IF pc[o] = "get_sensebox" THEN @ ELSE Append(@, i)]
    /\ UNCHANGED <<clientVars, inputVars, kind, sensebox_id, box, issued, result>>

\* a request fails: an error status (raise_for_status=True) or a connection
\* error; the awaiting coroutine, or its gather, raises the first failure
request_failure(o, i, type) ==
    /\ i \in DOMAIN requests[o]
    /\ IF type = "ClientResponseError"
       THEN requests[o][i].state = "inflight" /\ ~session_closed
       ELSE \/ requests[o][i].state = "inflight"
            \/ requests[o][i].state = "waiting" /\ session_closed
    /\ requests' = [requests EXCEPT ![o][i].state = "failed"]
    /\ IF Awaiting(o)
       THEN Raise(o, request_error(o, i, type))
       ELSE UNCHANGED <<pc, error>>
    /\ completed' = [completed EXCEPT ![o] = IF pc[o] = "get_sensebox" THEN @ ELSE Append(@, i)]
    /\ UNCHANGED <<clientVars, inputVars, kind, sensebox_id, box, issued, result>>

\* a guard that reads .closed of a session that may be None
close_session_guard_unchecked(the_session, closed) ==
    IF the_session = "None" THEN "raise"
    ELSE IF ~closed THEN "close" ELSE "noop"

\* the condition of close_session: what the call does
close_session_guard(the_session, closed) ==
    IF the_session /= "None" /\ ~closed THEN "close" ELSE "noop"

\* await client.close_session(), up to its suspension in session.close()
close_session(outcome) ==
    /\ close_calls < MaxClose
    /\ outcome = close_session_guard(session, session_closed)
    /\ close_calls' = close_calls + 1
    /\ IF outcome = "close"
       THEN /\ session_closed' = TRUE
            /\ session_close_count' = session_close_count + 1
            /\ closing' = closing + 1
            /\ UNCHANGED close_raised
       ELSE /\ close_raised' = (close_raised \/ outcome = "raise")
            /\ UNCHANGED <<session_closed, session_close_count, closing>>
    /\ UNCHANGED <<limit_per_host, session, inputVars, kind, pc, sensebox_id, box,
                   requests, issued, completed, result, error>>

\* session.close() returns: self._session = None
close_session_return ==
    /\ closing > 0
    /\ closing' = closing - 1
    /\ session' = "None"
    /\ UNCHANGED <<limit_per_host, session_closed, close_calls, session_close_count,
                   close_raised, inputVars, kind, pc, sensebox_id, box, requests,
                   issued, completed, result, error>>

SensorIdsOf(box_id) ==
    {UpstreamBox(box_id).sensors[i].id : i \in DOMAIN UpstreamBox(box_id).sensors}
RequestIndices == UNION {DOMAIN requests[o] : o \in Ops}
FailureTypes == {"ClientResponseError", "ClientConnectionError"}

Next ==
    \/ \E o \in Ops, b \in boxes : \E s \in SensorIdsOf(b) : get_sensor_measurements(o, b, s)
    \/ \E o \in Ops, b \in boxes : get_measurements_with_sensor_metadata(o, b)
    \/ \E o \in Ops, i \in RequestIndices : acquire_connection(o, i)
    \/ \E o \in Ops : box_response(o)
    \/ \E o \in Ops, i \in RequestIndices : measurements_response(o, i)
    \/ \E o \in Ops, i \in RequestIndices, t \in FailureTypes : request_failure(o, i, t)
    \/ \E outcome \in {"close", "noop", "raise"} : close_session(outcome)
    \/ close_session_return

Spec == Init /\ [][Next]_vars

\* several concurrent callers on clients of every small limit_per_host, with
\* aware date bounds and no filter
InitFanOut ==
    /\ InitClient
    /\ limit_per_host \in 0..MaxLimit
    /\ from_date = Some(Aware(0, 0))
    /\ to_date = Some(Aware(MaxTime, 0))
    /\ sensor_filter_criteria = None
    /\ callers = Ops
    /\ boxes = {"b1"}
    /\ bounding_box = NoBoundingBox

SpecFanOut == InitFanOut /\ [][Next]_vars

\* two calls on one client for the same box, with the same date bounds and
\* the same filter, whatever the filter
InitTwoRuns ==
    /\ InitClient
    /\ limit_per_host \in {1, DefaultLimitPerHost}
    /\ from_date = Some(Aware(0, 0))
    /\ to_date = Some(Aware(MaxTime, 0))
    /\ sensor_filter_criteria \in OptionalCriteria
    /\ callers = {1, 2}
    /\ boxes = {"b1"}
    /\ bounding_box = NoBoundingBox

SpecTwoRuns == InitTwoRuns /\ [][Next]_vars

\* ------------------------------------------------------------ area fan-out
\* the task of the area operation; the tasks 1..Len(boxes of the area) are
\* its get_measurements_with_sensor_metadata calls, one per box
AreaOp == MaxOps + 1
Tasks == Ops \cup {AreaOp}

\* get_senseboxes: the url of the rectangle (bbox is a query parameter)
senseboxes_url(bbox) == Url(<<"boxes", "?bbox", bbox>>, NoQuery)

\* await client.get_measurements_from_area(bounding_box, from_date, to_date,
\* sensor_filter_criteria), up to the session.get of get_senseboxes
get_measurements_from_area ==
    /\ pc[AreaOp] = "idle"
    /\ session_get_error = NoError
    /\ kind' = [kind EXCEPT ![AreaOp] = "get_measurements_from_area"]
    /\ requests' = [requests EXCEPT ![AreaOp] =
                        start_requests(<<senseboxes_url(bounding_box)>>, InFlight)]
    /\ issued' = [issued EXCEPT ![AreaOp] = <<senseboxes_url(bounding_box)>>]
    /\ pc' = [pc EXCEPT ![AreaOp] = "get_senseboxes"]
    /\ UNCHANGED <<clientVars, inputVars, sensebox_id, box, completed, result, error>>

\* the boxes arrive: get_senseboxes returns result.root, and the area
\* operation starts one get_measurements_with_sensor_metadata per box, each
\* running up to the session.get of its get_sensebox
senseboxes_response ==
    /\ pc[AreaOp] = "get_senseboxes"
    /\ requests[AreaOp][1].state = "inflight"
    /\ ~session_closed
    /\ LET area_boxes == UpstreamBoxes(bounding_box)
           children == DOMAIN area_boxes
           box_requests == start_requests(
                              [i \in children |-> sensebox_url(area_boxes[i].id)], InFlight)
       IN  /\ children \subseteq Ops
           /\ requests' = [o \in Tasks |->
                              IF o \in children THEN <<box_requests[o]>>
                              ELSE IF o = AreaOp THEN <<>>
                              ELSE requests[o]]
           /\ issued' = [o \in Tasks |->
                            IF o \in children THEN <<sensebox_url(area_boxes[o].id)>>
                            ELSE issued[o]]
           /\ kind' = [o \in Tasks |->
                          IF o \in children THEN "get_measurements_with_sensor_metadata"
                          ELSE kind[o]]
           /\ sensebox_id' = [o \in Tasks |->
                                 IF o \in children THEN area_boxes[o].id ELSE sensebox_id[o]]
           /\ pc' = [o \in Tasks |->
                        IF o \in children THEN "get_sensebox"
                        ELSE IF o = AreaOp
                        THEN (IF children = {} THEN "returned" ELSE "gather")
                        ELSE pc[o]]
    /\ UNCHANGED <<clientVars, inputVars, box, completed, result, error>>

\* the request of get_senseboxes fails: the area operation raises
senseboxes_failure(type) ==
    /\ pc[AreaOp] = "get_senseboxes"
    /\ requests[AreaOp][1].state = "inflight"
    /\ requests' = [requests EXCEPT ![AreaOp][1].state = "failed"]
    /\ Raise(AreaOp, Error("UpstreamRequestError", request_error(AreaOp, 1, type).url))
    /\ UNCHANGED <<clientVars, inputVars, kind, sensebox_id, box, issued, completed, result>>

\* the per-box operations end: the area operation returns their results
\* flattened in the order of the boxes once every one has returned, and
\* raises as soon as one of them has raised
area_gather ==
    /\ pc[AreaOp] = "gather"
    /\ LET children == DOMAIN UpstreamBoxes(bounding_box)
       IN  \/ /\ \A o \in children : pc[o] = "returned"
              /\ result' = [result EXCEPT ![AreaOp] = Flatten([o \in children |-> result[o]])]
              /\ pc' = [pc EXCEPT ![AreaOp] = "returned"]
              /\ UNCHANGED error
           \/ /\ \E o \in children :
                    /\ pc[o] = "raised"
                    /\ Raise(AreaOp, Error("UpstreamRequestError", error[o].url))
              /\ UNCHANGED result
    /\ UNCHANGED <<clientVars, inputVars, kind, sensebox_id, box, requests, issued, completed>>

NextArea ==
    \/ get_measurements_from_area
    \/ senseboxes_response
    \/ \E t \in FailureTypes : senseboxes_failure(t)
    \/ \E o \in Ops, i \in RequestIndices : acquire_connection(o, i)
    \/ \E o \in Ops : box_response(o)
    \/ \E o \in Ops, i \in RequestIndices : measurements_response(o, i)
    \/ \E o \in Ops, i \in RequestIndices, t \in FailureTypes : request_failure(o, i, t)
    \/ area_gather

\* one area operation on an open client, for every rectangle, with aware or
\* no date bounds
InitArea ==
    /\ session = "ClientSession"
    /\ session_closed = FALSE
    /\ closing = 0
    /\ close_calls = 0
    /\ session_close_count = 0
    /\ close_raised = FALSE
    /\ kind = [o \in Tasks |-> "none"]
    /\ pc = [o \in Tasks |-> "idle"]
    /\ sensebox_id = [o \in Tasks |-> ""]
    /\ box = [o \in Tasks |-> NoBox]
    /\ requests = [o \in Tasks |-> <<>>]
    /\ issued = [o \in Tasks |-> <<>>]
    /\ completed = [o \in Tasks |-> <<>>]
    /\ result = [o \in Tasks |-> <<>>]
    /\ error = [o \in Tasks |-> NoError]
    /\ limit_per_host \in {1, DefaultLimitPerHost}
    /\ from_date \in {None, Some(Aware(0, 0)), Some(Aware(1, 1))}
    /\ to_date \in {None, Some(Aware(MaxTime, 0))}
    /\ sensor_filter_criteria \in OptionalCriteria
    /\ callers = {}
    /\ boxes = {}
    /\ bounding_box \in BoundingBoxes

SpecArea == InitArea /\ [][NextArea]_vars

\* ------------------------------------------------------------------ claims
IsSeries(o) == kind[o] = "get_sensor_measurements"
IsFanOut(o) == kind[o] = "get_measurements_with_sensor_metadata"

IsNaive(date) == date /= None /\ TheValue(date).tzinfo = None
IsAware(date) == date /= None /\ TheValue(date).tzinfo /= None
FromInstant == TheValue(from_date).wall - TheValue(TheValue(from_date).tzinfo)
ToInstant == TheValue(to_date).wall - TheValue(TheValue(to_date).tzinfo)
OrderedBounds == IsAware(from_date) /\ IsAware(to_date) /\ FromInstant <= ToInstant

\* the (window_start, window_end) pairs of the requests a call issued
Windows(o) ==
    [i \in DOMAIN issued[o] |->
        <<TheValue(issued[o][i].query.from_date), TheValue(issued[o][i].query.to_date)>>]

\* the measurement a joined record carries
MeasurementOf(record) == Measurement(record.createdAt, record.value)
Occurrences(seq, x) == Cardinality({k \in DOMAIN seq : seq[k] = x})
SensorsOf(o) == UpstreamBox(sensebox_id[o]).sensors
SumOfLengths(seqs) == Len(Flatten(seqs))
NoFilter ==
    \/ sensor_filter_criteria = None
    \/ /\ TheValue(sensor_filter_criteria).allowed_units = None
       /\ TheValue(sensor_filter_criteria).allowed_phenomena = None

\* C1: for aware from_date <= to_date, the windows get_sensor_measurements
\* requests cover [from_date, to_date]: the first starts at from_date, each
\* ends where the next starts, none is longer than one day, the last ends at
\* to_date.
C1_WindowsCoverRange ==
    \A o \in Ops :
        IsSeries(o) /\ OrderedBounds /\ issued[o] /= <<>> =>
            LET w == Windows(o)
                n == Len(w)
            IN  /\ w[1][1] = FromInstant
                /\ w[n][2] = ToInstant
                /\ \A i \in 1..(n - 1) : w[i][2] = w[i + 1][1]
                /\ \A i \in 1..n : w[i][1] <= w[i][2] /\ w[i][2] - w[i][1] <= DayTicks

\* the number of windows of at most one day that cover a span
NumberOfWindows(span) ==
    IF span <= DayTicks THEN 1 ELSE (span + DayTicks - 1) \div DayTicks

\* C2: a range of several windows is fetched with one request per window, and
\* the result is the responses concatenated in window order.
C2_OneFetchPerWindow ==
    \A o \in Ops :
        IsSeries(o) /\ OrderedBounds /\ pc[o] = "returned" =>
            /\ Len(issued[o]) = NumberOfWindows(ToInstant - FromInstant)
            /\ result[o] =
                  Flatten([i \in DOMAIN issued[o] |-> UpstreamMeasurements(issued[o][i])])

\* the predicate of the claim, on the criteria the caller passed
ClaimAllowed(sensor) ==
    \/ sensor_filter_criteria = None
    \/ LET criteria == TheValue(sensor_filter_criteria)
       IN  /\ criteria.allowed_units = None \/ \E units \in criteria.allowed_units : sensor.unit \in units
           /\ criteria.allowed_phenomena = None
                \/ \E titles \in criteria.allowed_phenomena : sensor.title \in titles

\* C3: get_measurements_with_sensor_metadata returns a measurement of a sensor
\* iff the sensor's unit is in allowed_units (or that is unset) and its title
\* is in allowed_phenomena (or that is unset); criteria None drops nothing.
C3_FilterIff ==
    \A o \in Ops :
        IsFanOut(o) /\ pc[o] = "returned" =>
            /\ \A i \in DOMAIN requests[o] : \A j \in DOMAIN requests[o][i].payload :
                  (\E k \in DOMAIN result[o] :
                      /\ result[o][k].id = SensorsOf(o)[i].id
                      /\ MeasurementOf(result[o][k]) = requests[o][i].payload[j])
                  <=> ClaimAllowed(SensorsOf(o)[i])
            /\ \A k \in DOMAIN result[o] :
                  \E i \in DOMAIN SensorsOf(o) :
                      SensorsOf(o)[i].id = result[o][k].id /\ ClaimAllowed(SensorsOf(o)[i])

C3_Witness ==
    \E o \in Ops :
        /\ IsFanOut(o) /\ pc[o] = "returned"
        /\ sensor_filter_criteria /= None
        /\ result[o] /= <<>>
        /\ \E i \in DOMAIN requests[o] :
              requests[o][i].payload /= <<>> /\ ~ClaimAllowed(SensorsOf(o)[i])

\* C4: every returned record carries the requested box id and the id, unit and
\* title of a sensor of that box, the one whose request returned the record's
\* measurement, in whatever order the requests completed.
C4_RecordsCarryTheirSensor ==
    \A o \in Ops :
        IsFanOut(o) /\ pc[o] = "returned" =>
            \A k \in DOMAIN result[o] :
                /\ result[o][k].senseboxId = sensebox_id[o]
                /\ \E i \in DOMAIN SensorsOf(o) :
                      /\ result[o][k].id = SensorsOf(o)[i].id
                      /\ result[o][k].unit = SensorsOf(o)[i].unit
                      /\ result[o][k].title = SensorsOf(o)[i].title
                /\ \E i \in DOMAIN requests[o] :
                      /\ requests[o][i].url.path = <<"boxes", sensebox_id[o], "data", result[o][k].id>>
                      /\ Occurrences(requests[o][i].payload, MeasurementOf(result[o][k])) > 0

C4_Witness ==
    \E o \in Ops :
        /\ IsFanOut(o) /\ pc[o] = "returned"
        /\ completed[o] = <<2, 1>>
        /\ \E k, l \in DOMAIN result[o] : result[o][k].id /= result[o][l].id

\* C5: with no filter the result holds every measurement of every sensor's
\* response exactly once, and its length is the sum of the response lengths.
C5_NothingDroppedNothingTwice ==
    \A o \in Ops :
        IsFanOut(o) /\ pc[o] = "returned" /\ NoFilter =>
            /\ Len(result[o]) = SumOfLengths(Payloads(requests[o]))
            /\ \A i \in DOMAIN requests[o] : \A j \in DOMAIN requests[o][i].payload :
                  Cardinality({k \in DOMAIN result[o] :
                      /\ result[o][k].id = SensorsOf(o)[i].id
                      /\ MeasurementOf(result[o][k]) = requests[o][i].payload[j]}) = 1

C5_Witness ==
    \E o \in Ops :
        /\ IsFanOut(o) /\ pc[o] = "returned" /\ NoFilter
        /\ OrderedBounds /\ ToInstant - FromInstant > DayTicks
        /\ Len(requests[o]) > 1
        /\ \A i \in DOMAIN requests[o] : Len(requests[o][i].payload) > 1

\* a sensor request of the call failed while the call was gathering
SensorFetchFailed(o) ==
    /\ IsFanOut(o)
    /\ box[o] /= NoBox
    /\ \E i \in DOMAIN requests[o] : requests[o][i].state = "failed"

\* C6: when a sensor's fetch fails, get_measurements_with_sensor_metadata
\* raises an error that carries the id of a sensor whose fetch failed, and
\* returns no measurement.
C6_FailureNamesTheSensor ==
    \A o \in Ops :
        SensorFetchFailed(o) =>
            /\ pc[o] = "raised"
            /\ result[o] = <<>>
            /\ \E i \in DOMAIN requests[o] :
                  /\ requests[o][i].state = "failed"
                  /\ Len(error[o].url.path) = 4
                  /\ error[o].url.path[4] = SensorsOf(o)[i].id

\* C7: once get_measurements_with_sensor_metadata has raised the failure of
\* one sensor request, none of its sibling requests is waiting or in flight.
C7_SiblingsCancelled ==
    \A o \in Ops :
        IsFanOut(o) /\ pc[o] = "raised" =>
            \A i \in DOMAIN requests[o] : requests[o][i].state \notin {"waiting", "inflight"}

\* C8 as stated: the requests in flight never exceed limit_per_host.
C8_AtMostLimitPerHost == InFlight <= limit_per_host

\* C8: with limit_per_host >= 1 the requests of all calls in flight never
\* exceed limit_per_host; with limit_per_host = 0 only the connector's total
\* limit holds.
C8_AtMostPositiveLimitPerHost ==
    /\ limit_per_host >= 1 => InFlight <= limit_per_host
    /\ InFlight <= ConnectorLimit

C8_Witness ==
    /\ limit_per_host >= 1
    /\ InFlight = limit_per_host
    /\ \E o, p \in Ops :
          /\ o /= p
          /\ \E i \in DOMAIN requests[o] : requests[o][i].state = "inflight"
          /\ IsFanOut(p) /\ pc[p] = "gather"
          /\ \E i \in DOMAIN requests[p] : requests[p][i].state = "waiting"

\* C9: on an open client, a call with a naive from_date or to_date ends by
\* raising the ValueError of the date check (the InvalidRangeError of the
\* specification), and has then handed no request to the session.
C9_NaiveDateFailsBeforeAnyRequest ==
    \A o \in Ops :
        /\ pc[o] \in {"returned", "raised"}
        /\ IsNaive(from_date) \/ IsNaive(to_date)
        /\ close_calls = 0
        => /\ pc[o] = "raised"
           /\ error[o].type = "ValueError"
           /\ issued[o] = <<>>

\* C10: no close_session call raises, the session is closed at most once, and
\* once a call has returned the client stays closed.
C10_CloseSessionIdempotent ==
    /\ ~close_raised
    /\ session_close_count <= 1
    /\ close_calls >= 1 /\ closing = 0 => session = "None" /\ session_closed

C10_Witness ==
    /\ close_calls >= 2
    /\ closing = 0
    /\ session = "None"
    /\ session_close_count = 1

\* C11: a fetch operation called after close_session has completed raises
\* the error of a closed client (the AttributeError of the session that is
\* None, the ClientClosedError of the specification) and hands no request to
\* the session.
C11_CallAfterCloseRaisesClientClosedError ==
    [][\A o \in Ops :
          session = "None" /\ closing = 0 /\ pc[o] = "idle" /\ pc'[o] /= "idle" =>
              /\ pc'[o] = "raised"
              /\ error'[o].type = "AttributeError"
              /\ issued'[o] = <<>>]_vars

\* the sensor ids of the measurement requests a call handed to the session
IssuedSensorIds(o) ==
    {issued[o][k].path[Len(issued[o][k].path)] :
        k \in {j \in DOMAIN issued[o] : "data" \in {issued[o][j].path[n] : n \in DOMAIN issued[o][j].path}}}

\* the records of a fan-out that filters the sensors with are_fulfilled_by
\* before fetching and joins only the responses of the sensors left
FilterBeforeFetch(o) ==
    LET sensors == box[o].sensors
        kept == {i \in DOMAIN sensors :
                    are_fulfilled_by(effective_filter(sensor_filter_criteria), sensors[i])}
        series(i) == UpstreamMeasurements(
                        measurements_url(box[o].id, sensors[i].id, from_date, to_date))
    IN  UNION {{MeasurementWithSensorMetadata(sensors[i], series(i)[j], box[o].id) :
                    j \in DOMAIN series(i)} : i \in kept}

\* the records get_measurements_with_sensor_metadata returned
FilterAfterJoin(o) == {result[o][k] : k \in DOMAIN result[o]}

\* C14: for every criteria, box and date range, the set of records a returned
\* get_measurements_with_sensor_metadata holds (filtered after the join) is
\* the set obtained by filtering the sensors with are_fulfilled_by before
\* fetching.
C14_FilterBeforeFetchEqualsFilterAfterJoin ==
    \A o \in Ops :
        IsFanOut(o) /\ pc[o] = "returned" => FilterBeforeFetch(o) = FilterAfterJoin(o)

C14_Witness ==
    \E o \in Ops :
        /\ IsFanOut(o) /\ pc[o] = "returned"
        /\ sensor_filter_criteria /= None
        /\ TheValue(sensor_filter_criteria).allowed_units /= None
        /\ TheValue(sensor_filter_criteria).allowed_phenomena /= None
        /\ FilterAfterJoin(o) /= {}
        /\ \E i \in DOMAIN box[o].sensors :
              /\ ~are_fulfilled_by(TheValue(sensor_filter_criteria), box[o].sensors[i])
              /\ requests[o][i].payload /= <<>>

\* C15: a get_sensor_measurements call on an open client with aware bounds
\* and from_date later than to_date raises the error of the date checks and
\* has handed no request to the session.
C15_ReversedRangeFailsBeforeAnyRequest ==
    \A o \in Ops :
        /\ IsSeries(o) /\ pc[o] /= "idle"
        /\ IsAware(from_date) /\ IsAware(to_date) /\ FromInstant > ToInstant
        /\ close_calls = 0
        => /\ pc[o] = "raised"
           /\ error[o].type = "ValueError"
           /\ issued[o] = <<>>

\* two aware datetimes of the same instant are sent as the same value
SameInstantSameValue ==
    \A d \in DateTimes : \A e \in DateTimes :
        /\ d.tzinfo /= None /\ e.tzinfo /= None
        /\ d.wall - TheValue(d.tzinfo) = e.wall - TheValue(e.tzinfo)
        => to_osem_dateformat(d) = to_osem_dateformat(e)

\* C16: every request carries an aware from_date and an aware to_date as
\* their UTC instants, and two aware datetimes of the same instant are sent
\* as the same value.
C16_DatesSentInUtc ==
    /\ \A o \in Ops : \A k \in DOMAIN issued[o] :
          issued[o][k].query /= NoQuery =>
              /\ IsAware(from_date) => issued[o][k].query.from_date = Some(FromInstant)
              /\ IsAware(to_date) => issued[o][k].query.to_date = Some(ToInstant)
    /\ SameInstantSameValue

C16_Witness ==
    \E o \in Ops : \E k \in DOMAIN issued[o] :
        /\ issued[o][k].query /= NoQuery
        /\ IsAware(from_date) /\ TheValue(TheValue(from_date).tzinfo) /= 0
        /\ IsAware(to_date) /\ TheValue(TheValue(to_date).tzinfo) = 0
        /\ issued[o][k].query.from_date = issued[o][k].query.to_date
        /\ TheValue(from_date).wall /= TheValue(to_date).wall

\* C17 as stated: get_measurements_with_sensor_metadata hands the session a
\* measurement request for exactly the sensors of the box that the filter
\* criteria allow.
C17_FetchesOnlyAllowedSensors ==
    \A o \in Ops :
        IsFanOut(o) /\ pc[o] \in {"gather", "returned"} =>
            IssuedSensorIds(o) =
                {SensorsOf(o)[i].id : i \in {j \in DOMAIN SensorsOf(o) : ClaimAllowed(SensorsOf(o)[j])}}

\* C17: get_measurements_with_sensor_metadata hands the session a measurement
\* request for every sensor of the box, whatever the filter criteria, and the
\* records it returns are of allowed sensors only.
C17_FetchesEverySensorFiltersResult ==
    \A o \in Ops :
        IsFanOut(o) /\ pc[o] \in {"gather", "returned"} =>
            /\ IssuedSensorIds(o) = {SensorsOf(o)[i].id : i \in DOMAIN SensorsOf(o)}
            /\ \A k \in DOMAIN result[o] :
                  \E i \in DOMAIN SensorsOf(o) :
                      /\ SensorsOf(o)[i].id = result[o][k].id
                      /\ ClaimAllowed(SensorsOf(o)[i])

C17_Witness ==
    \E o \in Ops :
        /\ IsFanOut(o) /\ pc[o] = "returned"
        /\ result[o] /= <<>>
        /\ \E i \in DOMAIN SensorsOf(o) :
              /\ ~ClaimAllowed(SensorsOf(o)[i])
              /\ SensorsOf(o)[i].id \in IssuedSensorIds(o)

\* C18: a get_sensor_measurements call without to_date that gets past the
\* date checks hands the session exactly one request; the request carries
\* from-date iff from_date is given, as its UTC instant, and no to-date.
C18_NoToDateOneRequest ==
    \A o \in Ops :
        /\ IsSeries(o) /\ to_date = None /\ ~IsNaive(from_date)
        /\ pc[o] /= "idle" /\ close_calls = 0
        => /\ Len(issued[o]) = 1
           /\ issued[o][1].query.to_date = None
           /\ from_date = None => issued[o][1].query.from_date = None
           /\ from_date /= None => issued[o][1].query.from_date = Some(FromInstant)

C18_Witness ==
    \E o \in Ops :
        /\ IsSeries(o) /\ pc[o] = "returned"
        /\ to_date = None /\ IsAware(from_date)
        /\ Len(issued[o]) = 1
        /\ result[o] /= <<>>

\* C19: a get_sensor_measurements call on an open client with aware
\* from_date = to_date hands the session exactly one request, for the window
\* (from_date, to_date); it does not raise unless that request fails
\* upstream, and it returns the measurements of that request's response.
C19_EmptyRangeOneRequest ==
    \A o \in Ops :
        /\ IsSeries(o) /\ pc[o] /= "idle"
        /\ IsAware(from_date) /\ IsAware(to_date) /\ FromInstant = ToInstant
        /\ close_calls = 0
        => /\ Len(issued[o]) = 1
           /\ Windows(o) = <<<<FromInstant, ToInstant>>>>
           /\ pc[o] = "raised" => error[o].type \in FailureTypes
           /\ pc[o] = "returned" => result[o] = UpstreamMeasurements(issued[o][1])

C19_Witness ==
    \E o \in Ops :
        /\ IsSeries(o) /\ pc[o] = "returned"
        /\ IsAware(from_date) /\ IsAware(to_date) /\ FromInstant = ToInstant
        /\ TheValue(from_date).tzinfo /= TheValue(to_date).tzinfo
        /\ Len(result[o]) = 1

\* C20: in get_measurements_with_sensor_metadata the first request is the
\* box request, measurement requests are handed to the session only once the
\* box has been received, and none is when the box request failed.
C20_BoxBeforeSensorRequests ==
    \A o \in Ops :
        IsFanOut(o) =>
            /\ IssuedSensorIds(o) /= {} =>
                  /\ box[o] /= NoBox
                  /\ issued[o][1] = sensebox_url(sensebox_id[o])
            /\ box[o] = NoBox => Len(issued[o]) <= 1

C20_Witness ==
    \E o \in Ops :
        /\ IsFanOut(o) /\ pc[o] = "raised"
        /\ box[o] = NoBox
        /\ error[o].type \in FailureTypes
        /\ issued[o] = <<sensebox_url(sensebox_id[o])>>

\* the records of one box of the area: every measurement upstream holds
\* between the caller's bounds, of every sensor the caller's filter allows,
\* joined with its sensor and the id of the box
AreaBoxRecords(the_box) ==
    UNION {{MeasurementWithSensorMetadata(the_box.sensors[i], m, the_box.id) :
                m \in {UpstreamMeasurements(
                          measurements_url(the_box.id, the_box.sensors[i].id, from_date, to_date))[j] :
                       j \in DOMAIN UpstreamMeasurements(
                          measurements_url(the_box.id, the_box.sensors[i].id, from_date, to_date))}} :
           i \in {k \in DOMAIN the_box.sensors : ClaimAllowed(the_box.sensors[k])}}

\* the raw measurement counts of all sensors of all boxes of the area
RECURSIVE SumOver(_)
SumOver(numbers) == IF numbers = <<>> THEN 0 ELSE Head(numbers) + SumOver(Tail(numbers))
AreaRawCount ==
    LET area_boxes == UpstreamBoxes(bounding_box)
    IN  SumOver([b \in DOMAIN area_boxes |->
            SumOver([i \in DOMAIN area_boxes[b].sensors |->
                Len(UpstreamMeasurements(
                        measurements_url(area_boxes[b].id, area_boxes[b].sensors[i].id,
                                         from_date, to_date)))])])

AreaBoxFetchFailed ==
    /\ kind[AreaOp] = "get_measurements_from_area"
    /\ \E o \in Ops : \E i \in DOMAIN requests[o] : requests[o][i].state = "failed"

GroupedBySensor(o) ==
    LET sensors == SensorsOf(o)
        rows(i) ==
            IF ClaimAllowed(sensors[i])
            THEN [j \in DOMAIN requests[o][i].payload |->
                    [id |-> sensors[i].id, title |-> sensors[i].title,
                     unit |-> sensors[i].unit, sensorType |-> sensors[i].sensorType,
                     createdAt |-> requests[o][i].payload[j].createdAt,
                     value |-> requests[o][i].payload[j].value,
                     senseboxId |-> sensebox_id[o]]]
            ELSE <<>>
    IN  Flatten([i \in DOMAIN sensors |-> rows(i)])

\* C21: a returned get_measurements_with_sensor_metadata holds the records
\* grouped by sensor in the order of the box's sensor list and, within a
\* sensor, in the order of its response, whatever the order in which the
\* responses arrived; two calls for the same box with the same responses
\* return the same sequence.
C21_ResultOrderIndependentOfCompletionOrder ==
    /\ \A o \in Ops :
          IsFanOut(o) /\ pc[o] = "returned" => result[o] = GroupedBySensor(o)
    /\ \A o, p \in Ops :
          /\ IsFanOut(o) /\ pc[o] = "returned"
          /\ IsFanOut(p) /\ pc[p] = "returned"
          /\ sensebox_id[o] = sensebox_id[p]
          => result[o] = result[p]

C21_Witness ==
    \E o, p \in Ops :
        /\ IsFanOut(o) /\ pc[o] = "returned"
        /\ IsFanOut(p) /\ pc[p] = "returned"
        /\ completed[o] = <<1, 2>>
        /\ completed[p] = <<2, 1>>
        /\ result[o] = result[p]
        /\ result[o][1].id /= result[o][Len(result[o])].id

====
